---- MODULE Spec2Model ----
(***************************************************************************)
(* Model of timeline.py: the Frames collection (construction, evaluate,    *)
(* the iterator protocol), Frame.load / Frame.timeline / Frame.save, and   *)
(* the script's main() -> make_images() -> make_movie() flow.              *)
(*                                                                         *)
(* Timestamps are whole seconds (the EXIF format '%Y:%m:%d %H:%M:%S' has   *)
(* one-second resolution), timedeltas are differences of seconds.          *)
(* Python's float results (timedelta / timedelta, 0.95 * width, ...) are   *)
(* modelled by exact rationals [num, den] in lowest terms, den > 0; float  *)
(* rounding is not modelled.  main() may be called more than once on the   *)
(* module's one Frames object (a second call runs a second for loop over   *)
(* it).  ImageOps.exif_transpose is taken to keep the EXIF width/height.   *)
(***************************************************************************)
EXTENDS Integers, Sequences, FiniteSets, TLC

VARIABLES
  images,   \* Frames.images: sequence of Frame records
  length,   \* Frames.length
  index,    \* Frames.index, the iterator cursor
  tspan,    \* Frames.tspan: <<>> while the attribute is unset, else <<seconds>>
  i,        \* loop variable of Frames.evaluate
  pc,       \* position of the script
  err,      \* the exception that ended the script, "" when none
  cur,      \* make_images: index of the frame bound to img, 0 when none
  yielded,  \* history: the frames returned by __next__, as indices into images
  stopped,  \* history: __next__ has raised StopIteration
  disk,     \* files written by Frame.save: set of [name, image]
  movie,    \* frames handed to ffmpeg by make_movie, in glob order
  calls,    \* number of main() calls started
  names     \* SpecNames: two sequence indices i < j and their output file names

vars == <<images, length, index, tspan, i, pc, err, cur, yielded, stopped,
          disk, movie, calls, names>>

----------------------------------------------------------------------------
(* Bounds of the model *)

MaxLen == 3

MaxMainCalls == 2

MaxIndex == 1001

\* timestamps (seconds) the EXIF collaborator may deliver
TimeStamps == {0, 1800, 5400}

\* (width, height) pairs the EXIF collaborator may deliver; the photos of one
\* sequence come from one camera and share their resolution
Resolutions == {<<100, 100>>, <<4032, 3024>>}

\* (left, top, right, bottom) boxes font.getbbox may measure for a label
LabelBoxes == {<<2, 3, 42, 13>>, <<0, 0, 95, 10>>, <<0, 2, 4000, 40>>}

----------------------------------------------------------------------------
(* Arithmetic *)

Abs(x) == IF x < 0 THEN -x ELSE x

RECURSIVE Gcd(_, _)
Gcd(a, b) == IF b = 0 THEN a ELSE Gcd(b, a % b)

\* the rational n/d (d # 0) in lowest terms with a positive denominator
Rat(n, d) ==
  LET s == IF d < 0 THEN -1 ELSE 1
      g == Gcd(Abs(n), Abs(d))
  IN  [num |-> (s * n) \div g, den |-> (s * d) \div g]

RInt(n) == [num |-> n, den |-> 1]
RAdd(a, b) == Rat(a.num * b.den + b.num * a.den, a.den * b.den)
RSub(a, b) == Rat(a.num * b.den - b.num * a.den, a.den * b.den)
RMul(a, b) == Rat(a.num * b.num, a.den * b.den)
RLt(a, b) == RSub(a, b).num < 0
RLe(a, b) == RSub(a, b).num <= 0

\* Python int(): truncation toward zero of a / b, b > 0
TruncDiv(a, b) == IF a >= 0 THEN a \div b ELSE -((-a) \div b)

\* floor of a / b, b > 0
FloorDiv(a, b) == a \div b

----------------------------------------------------------------------------
(* Output file names: f'tmp/image{i:03d}.jpg' as a sequence of character   *)
(* codes.                                                                  *)

PadWidth == 3

RECURSIVE Digits(_)
Digits(n) == IF n < 10 THEN <<48 + n>> ELSE Digits(n \div 10) \o <<48 + (n % 10)>>

RECURSIVE ZeroPad(_, _)
ZeroPad(s, w) == IF Len(s) >= w THEN s ELSE ZeroPad(<<48>> \o s, w)

\* "tmp/image" and ".jpg"
NamePrefix == <<116, 109, 112, 47, 105, 109, 97, 103, 101>>
NameSuffix == <<46, 106, 112, 103>>

OutfileName(n) == NamePrefix \o ZeroPad(Digits(n), PadWidth) \o NameSuffix

\* sample-out.jpg
default_outfile ==
  <<115, 97, 109, 112, 108, 101, 45, 111, 117, 116, 46, 106, 112, 103>>

\* lexical (code point) order of two names, as glob sorts them
RECURSIVE LexLess(_, _)
LexLess(s, t) ==
  IF t = <<>> THEN FALSE
  ELSE IF s = <<>> THEN TRUE
  ELSE IF Head(s) # Head(t) THEN Head(s) < Head(t)
  ELSE LexLess(Tail(s), Tail(t))

----------------------------------------------------------------------------
(* Frame.__init__ / get_resolution / get_datetime *)

\* strftime '%d-%b-%Y' keeps the calendar day of the timestamp and drops the
\* time of day; the label is modelled by the day number
SecondsPerDay == 86400

DateLabel(t) == t \div SecondsPerDay

NoImage == [loaded |-> FALSE, size |-> <<0, 0>>, cmds |-> <<>>, scaled |-> FALSE]

NewFrame(t, res) ==
  [ datetime_obj    |-> t,
    width           |-> res[1],
    height          |-> res[2],
    datetime_label  |-> DateLabel(t),
    outfile         |-> default_outfile,
    timediff        |-> 0,
    tprogress       |-> 0,
    tprogress_frac  |-> RInt(0),
    tprogress_hours |-> 0,
    image           |-> NoImage ]

NoNames == [i |-> 0, j |-> 0, fi |-> <<>>, fj |-> <<>>]

\* Frames.__init__ up to the call of evaluate
Init ==
  /\ \E n \in 0..MaxLen :
       \E ts \in [1..n -> TimeStamps], res \in Resolutions :
         /\ images = [k \in 1..n |-> NewFrame(ts[k], res)]
         /\ length = n
  /\ index = -1
  /\ tspan = <<>>
  /\ i = 0
  /\ pc = "evaluate"
  /\ err = ""
  /\ cur = 0
  /\ yielded = <<>>
  /\ stopped = FALSE
  /\ disk = {}
  /\ movie = <<>>
  /\ calls = 0
  /\ names = NoNames

----------------------------------------------------------------------------
(* Frames.evaluate.  images is 1-based here: images[k] is Python's         *)
(* self.images[k-1]; i keeps Python's 0-based value.                       *)

\* lines 234-236: tend - tbeg
TotalSpan == images[length].datetime_obj - images[1].datetime_obj

\* lines 233-236
EvaluateBegin ==
  /\ pc = "evaluate"
  /\ tspan' = IF length # 0 THEN <<TotalSpan>> ELSE tspan
  /\ i' = 0
  /\ pc' = "evaluate_loop"
  /\ UNCHANGED <<images, length, index, err, cur, yielded, stopped, disk,
                 movie, calls, names>>

\* int( tprogress.total_seconds()/3600 + 0.5 )
ProgressHours(secs) == TruncDiv(2 * secs + 3600, 7200)

\* a plausible slip: the elapsed time taken from the previous record
TProgressFromPrev(n) == images[n + 1].datetime_obj - images[n].datetime_obj

\* line 243: this.datetime_obj - tbeg, on Python index n
TProgress(n) == images[n + 1].datetime_obj - images[1].datetime_obj

\* a plausible slip: the span counted inclusively
ProgressFracInclusive(tp, span) == Rat(tp, span + 1)

\* line 244: this.tprogress / self.tspan, span # 0
ProgressFrac(tp, span) == Rat(tp, span)

\* this.tprogress / self.tspan raises ZeroDivisionError when tspan is zero
DivisionRaises(t) == t = 0

\* one iteration of the loop, lines 238-245, on Python index n
EvaluateFrame(n) ==
  LET this == images[n + 1]
      named == [this EXCEPT !.outfile = OutfileName(n)]
  IN  IF n = 0 THEN [frame |-> named, raised |-> FALSE]
      ELSE LET prev == images[n]
               timed == [named EXCEPT
                           !.timediff = this.datetime_obj - prev.datetime_obj,
                           !.tprogress = TProgress(n)]
           IN  IF DivisionRaises(tspan[1])
               THEN [frame |-> timed, raised |-> TRUE]
               ELSE [frame |->
                       [timed EXCEPT
                          !.tprogress_frac = ProgressFrac(timed.tprogress, tspan[1]),
                          !.tprogress_hours = ProgressHours(timed.tprogress)],
                     raised |-> FALSE]

EvaluateStep ==
  /\ pc = "evaluate_loop"
  /\ i < length
  /\ LET r == EvaluateFrame(i)
     IN  /\ images' = [images EXCEPT ![i + 1] = r.frame]
         /\ IF r.raised
            THEN /\ pc' = "raised"
                 /\ err' = "ZeroDivisionError"
                 /\ i' = i
            ELSE /\ pc' = pc
                 /\ err' = err
                 /\ i' = i + 1
  /\ UNCHANGED <<length, index, tspan, cur, yielded, stopped, disk, movie,
                 calls, names>>

\* the loop is exhausted: Frames.__init__ returns, the module is loaded
EvaluateEnd ==
  /\ pc = "evaluate_loop"
  /\ i >= length
  /\ pc' = "idle"
  /\ UNCHANGED <<images, length, index, tspan, i, err, cur, yielded, stopped,
                 disk, movie, calls, names>>

----------------------------------------------------------------------------
(* Frame.timeline: geometry and drawing commands *)

rad == 15

line_wid == 10

XLen(f) == RMul(Rat(95, 100), RInt(f.width))
XOff(f) == RMul(RSub(RInt(f.width), XLen(f)), Rat(1, 2))
YOff(f) == RMul(Rat(98, 100), RInt(f.height))
XProg(f) == RAdd(XOff(f), RMul(XLen(f), f.tprogress_frac))
YLab(f) == RSub(YOff(f), RMul(Rat(125, 100), RInt(rad)))

\* span = right - left and height = bottom - top of the measured box
BoxSpan(b) == b[3] - b[1]
BoxHeight(b) == b[4] - b[2]

Cmd(op, xy, fill, width) ==
  [op |-> op, xy |-> xy, fill |-> fill, width |-> width,
   anchor |-> "", label |-> 0, textwidth |-> 0]

TextCmd(x, y, anchor, label, span) ==
  [op |-> "text", xy |-> <<x, y>>, fill |-> "white", width |-> 0,
   anchor |-> anchor, label |-> label, textwidth |-> span]

\* a plausible slip: the label always centred on the marker
LabelCmdCentred(f, span) ==
  TextCmd(XProg(f), YLab(f), "md", f.datetime_label, span)

\* a plausible slip: no test of the right edge
LabelNoRightTest(f, span) ==
  LET half == RMul(Rat(1, 2), RInt(span))
  IN  IF RLt(RSub(XProg(f), half), XOff(f))
      THEN TextCmd(XOff(f), YLab(f), "ld", f.datetime_label, span)
      ELSE TextCmd(XProg(f), YLab(f), "md", f.datetime_label, span)

\* lines 184-198: the three-branch label placement
LabelCmd(f, span) ==
  LET half == RMul(Rat(1, 2), RInt(span))
  IN  IF RLt(RSub(XProg(f), half), XOff(f))
      THEN TextCmd(XOff(f), YLab(f), "ld", f.datetime_label, span)
      ELSE IF RLt(RAdd(XOff(f), XLen(f)), RAdd(XProg(f), half))
      THEN TextCmd(RAdd(XOff(f), XLen(f)), YLab(f), "rd", f.datetime_label, span)
      ELSE TextCmd(XProg(f), YLab(f), "md", f.datetime_label, span)

\* lines 166-174: the background box
BoxCmd(f, b) ==
  LET box_xlen == RInt(f.width)
      box_ylen == RAdd(RAdd(RSub(RInt(f.height), YOff(f)),
                            RMul(Rat(225, 100), RInt(rad))),
                       RMul(Rat(15, 10), RInt(BoxHeight(b))))
      box_xoff == RInt(0)
      box_yoff == RInt(f.height)
  IN  Cmd("rectangle",
          <<box_xoff, RSub(box_yoff, box_ylen), RAdd(box_xoff, box_xlen), box_yoff>>,
          "black", 0)

\* lines 176-177
BarCmd(f) ==
  Cmd("line", <<XOff(f), YOff(f), RAdd(XOff(f), XLen(f)), YOff(f)>>, "gray", line_wid)

\* lines 179-180
DotCmd(f) ==
  Cmd("ellipse",
      <<RSub(XProg(f), RInt(rad)), RSub(YOff(f), RInt(rad)),
        RAdd(XProg(f), RInt(rad)), RAdd(YOff(f), RInt(rad))>>,
      "red", 1)

\* lines 181-182
ProgLineCmd(f) ==
  Cmd("line", <<XOff(f), YOff(f), XProg(f), YOff(f)>>, "red", 2 * rad)

\* the progress line issued before the marker disc
TimelineCmdsLineFirst(f, b) ==
  <<BoxCmd(f, b), BarCmd(f), ProgLineCmd(f), DotCmd(f), LabelCmd(f, BoxSpan(b))>>

\* the drawing commands of one call of Frame.timeline, in the order issued
TimelineCmds(f, b) ==
  <<BoxCmd(f, b), BarCmd(f), DotCmd(f), ProgLineCmd(f), LabelCmd(f, BoxSpan(b))>>

----------------------------------------------------------------------------
(* Frame.load and Frame.save *)

OutWidth == 1280

OutHeight == 960

\* line 133-134
LoadImage(f) ==
  [loaded |-> TRUE, size |-> <<f.width, f.height>>, cmds |-> <<>>, scaled |-> FALSE]

RoundDiv(a, b) == (2 * a + b) \div (2 * b)

\* Image.thumbnail(outsize): shrink in place to fit outsize, keeping the
\* aspect ratio; an image that already fits keeps its size
Thumbnail(img) ==
  LET w == img.size[1]
      h == img.size[2]
      size == IF w <= OutWidth /\ h <= OutHeight THEN <<w, h>>
              ELSE IF OutWidth * h >= OutHeight * w
              THEN <<RoundDiv(OutHeight * w, h), OutHeight>>
              ELSE <<OutWidth, RoundDiv(OutWidth * h, w)>>
  IN  [img EXCEPT !.size = size, !.scaled = TRUE]

\* a plausible slip: the file written before the downscale
SaveFrameEarly(f) ==
  [image |-> Thumbnail(f.image), file |-> [name |-> f.outfile, image |-> f.image]]

\* lines 202-204: the surface after thumbnail and the file written from it
SaveFrame(f) ==
  LET img == Thumbnail(f.image)
  IN  [image |-> img, file |-> [name |-> f.outfile, image |-> img]]

----------------------------------------------------------------------------
(* Frames.__iter__ / __next__ *)

\* a plausible slip: __iter__ rewinding the cursor
IterCursorReset(ix) == -1

\* __iter__ returns self: the cursor is what it was
IterCursor(ix) == ix

\* __next__: the new cursor, and the frame returned (0: StopIteration)
NextResult(ix) ==
  IF Len(images) = 0 THEN [index |-> ix, frame |-> 0]
  ELSE IF ix + 1 < length THEN [index |-> ix + 1, frame |-> ix + 2]
  ELSE [index |-> ix + 1, frame |-> 0]

----------------------------------------------------------------------------
(* main, make_images, make_movie *)

\* lines 267-269: frames[0], frames[1], f1.load()
MainCall ==
  /\ pc = "idle"
  /\ calls < MaxMainCalls
  /\ calls' = calls + 1
  /\ IF length < 2
     THEN /\ pc' = "raised"
          /\ err' = "IndexError"
          /\ images' = images
     ELSE /\ pc' = "make_images"
          /\ err' = err
          /\ images' = [images EXCEPT ![1].image = LoadImage(images[1])]
  /\ UNCHANGED <<length, index, tspan, i, cur, yielded, stopped, disk, movie,
                 names>>

\* line 248: the for statement takes iter(frames)
IterCall ==
  /\ pc = "make_images"
  /\ index' = IterCursor(index)
  /\ pc' = "next"
  /\ UNCHANGED <<images, length, tspan, i, err, cur, yielded, stopped, disk,
                 movie, calls, names>>

\* line 248: the for statement takes next(frames); StopIteration ends the loop
NextCall ==
  /\ pc = "next"
  /\ index < length + MaxMainCalls
  /\ LET r == NextResult(index)
     IN  /\ index' = r.index
         /\ IF r.frame # 0
            THEN /\ cur' = r.frame
                 /\ yielded' = Append(yielded, r.frame)
                 /\ stopped' = stopped
                 /\ pc' = "load"
            ELSE /\ cur' = cur
                 /\ yielded' = yielded
                 /\ stopped' = TRUE
                 /\ pc' = "make_movie"
  /\ UNCHANGED <<images, length, tspan, i, err, disk, movie, calls, names>>

\* lines 249-250: img.print(), img.load()
Load ==
  /\ pc = "load"
  /\ images' = [images EXCEPT ![cur].image = LoadImage(images[cur])]
  /\ pc' = "timeline"
  /\ UNCHANGED <<length, index, tspan, i, err, cur, yielded, stopped, disk,
                 movie, calls, names>>

\* line 251: img.timeline()
Timeline ==
  /\ pc = "timeline"
  /\ \E b \in LabelBoxes :
       images' = [images EXCEPT
                    ![cur].image.cmds = @ \o TimelineCmds(images[cur], b)]
  /\ pc' = "save"
  /\ UNCHANGED <<length, index, tspan, i, err, cur, yielded, stopped, disk,
                 movie, calls, names>>

\* line 252: img.save()
Save ==
  /\ pc = "save"
  /\ LET r == SaveFrame(images[cur])
     IN  /\ images' = [images EXCEPT ![cur].image = r.image]
         /\ disk' = {x \in disk : x.name # r.file.name} \cup {r.file}
  /\ pc' = "next"
  /\ UNCHANGED <<length, index, tspan, i, err, cur, yielded, stopped, movie,
                 calls, names>>

\* the names of a set of files in lexical order, as the glob delivers them
RECURSIVE GlobOrder(_)
GlobOrder(S) ==
  IF S = {} THEN <<>>
  ELSE LET first == CHOOSE x \in S : \A y \in S \ {x} : LexLess(x, y)
       IN  <<first>> \o GlobOrder(S \ {first})

\* lines 254-262: ffmpeg reads tmp/image*.jpg in glob order
MakeMovie ==
  /\ pc = "make_movie"
  /\ movie' = GlobOrder({x.name : x \in disk})
  /\ pc' = "idle"
  /\ UNCHANGED <<images, length, index, tspan, i, err, cur, yielded, stopped,
                 disk, calls, names>>

Next ==
  \/ EvaluateBegin
  \/ EvaluateStep
  \/ EvaluateEnd
  \/ MainCall
  \/ IterCall
  \/ NextCall
  \/ Load
  \/ Timeline
  \/ Save
  \/ MakeMovie

Spec == Init /\ [][Next]_vars

----------------------------------------------------------------------------
(* The output file names as a pure function of the sequence index: the    *)
(* names of two records i < j of one sequence, as evaluate assigns them.   *)

InitNames ==
  /\ \E a \in 0..MaxIndex, b \in 0..MaxIndex :
       /\ a < b
       /\ names = [i |-> a, j |-> b, fi |-> <<>>, fj |-> <<>>]
  /\ images = <<>>
  /\ length = 0
  /\ index = -1
  /\ tspan = <<>>
  /\ i = 0
  /\ pc = "names"
  /\ err = ""
  /\ cur = 0
  /\ yielded = <<>>
  /\ stopped = FALSE
  /\ disk = {}
  /\ movie = <<>>
  /\ calls = 0

\* line 239 on the two indices
FormatNames ==
  /\ pc = "names"
  /\ names.fi = <<>>
  /\ names' = [names EXCEPT !.fi = OutfileName(names.i),
                            !.fj = OutfileName(names.j)]
  /\ UNCHANGED <<images, length, index, tspan, i, pc, err, cur, yielded,
                 stopped, disk, movie, calls>>

NextNames == FormatNames

SpecNames == InitNames /\ [][NextNames]_vars

----------------------------------------------------------------------------
(* Properties *)

\* evaluate has ended, by returning or by raising
EvaluateEnded == pc \notin {"names", "evaluate", "evaluate_loop"}

\* evaluate has returned
Evaluated == EvaluateEnded /\ err # "ZeroDivisionError"

\* the input timestamps are non-decreasing with index
SortedInput ==
  \A a, b \in 1..length : a < b => images[a].datetime_obj <= images[b].datetime_obj

\* the text commands on the surface of frame k
TextCmds(k) ==
  {n \in 1..Len(images[k].image.cmds) : images[k].image.cmds[n].op = "text"}

\* the horizontal extent of a drawn label
LabelLeft(c) ==
  IF c.anchor = "ld" THEN c.xy[1]
  ELSE IF c.anchor = "rd" THEN RSub(c.xy[1], RInt(c.textwidth))
  ELSE RSub(c.xy[1], RMul(Rat(1, 2), RInt(c.textwidth)))

LabelRight(c) ==
  IF c.anchor = "ld" THEN RAdd(c.xy[1], RInt(c.textwidth))
  ELSE IF c.anchor = "rd" THEN c.xy[1]
  ELSE RAdd(c.xy[1], RMul(Rat(1, 2), RInt(c.textwidth)))

BarEnd(f) == RAdd(XOff(f), XLen(f))

\* what a drawing command is, by its primitive and colour
Kind(c) ==
  IF c.op = "line" THEN (IF c.fill = "gray" THEN "bar" ELSE "progress")
  ELSE IF c.op = "ellipse" THEN "disc"
  ELSE c.op

Kinds(k) == [n \in 1..Len(images[k].image.cmds) |-> Kind(images[k].image.cmds[n])]

\* C1: evaluating a sequence of total span zero raises no error and leaves
\* tprogress_frac at 0 for every record.
C1_ZeroSpanNoError ==
  (EvaluateEnded /\ length >= 1 /\ tspan = <<0>>)
    => /\ err = ""
       /\ \A k \in 1..length : images[k].tprogress_frac = RInt(0)

\* C2: after evaluate on a sorted sequence of positive total span the first
\* record has tprogress_frac exactly 0 and the last exactly 1.
C2_Endpoints ==
  (Evaluated /\ length >= 1 /\ SortedInput /\ tspan # <<>> /\ tspan[1] > 0)
    => /\ images[1].tprogress_frac = RInt(0)
       /\ images[length].tprogress_frac = RInt(1)

C2_Witness ==
  /\ Evaluated /\ length = 3 /\ SortedInput /\ tspan[1] > 0
  /\ images[2].tprogress_frac = Rat(1, 3)
  /\ images[3].tprogress_frac = RInt(1)

\* C3: a label no wider than the bar is drawn inside the bar's horizontal
\* extent [xoff, xoff + xlen], whatever the anchor chosen and whatever
\* tprogress_frac is.
C3_LabelInsideBar ==
  \A k \in 1..length : \A n \in TextCmds(k) :
    LET f == images[k]
        c == f.image.cmds[n]
    IN  RLe(RInt(c.textwidth), XLen(f))
          => /\ RLe(XOff(f), LabelLeft(c))
             /\ RLe(LabelRight(c), BarEnd(f))

C3_Witness ==
  /\ length = 3
  /\ \A k \in 1..3 : TextCmds(k) # {}
  /\ \A k \in 1..3 : \A n \in TextCmds(k) :
       RLe(RInt(images[k].image.cmds[n].textwidth), XLen(images[k]))
  /\ \E n \in TextCmds(1) : images[1].image.cmds[n].anchor = "ld"
  /\ \E n \in TextCmds(2) : images[2].image.cmds[n].anchor = "md"
  /\ \E n \in TextCmds(3) : images[3].image.cmds[n].anchor = "rd"

\* C4: tprogress_hours of every evaluated record is floor(hours + 1/2) of
\* its elapsed time timestamp[i] - timestamp[0], whatever the input order.
C4_HoursRoundHalfUp ==
  Evaluated =>
    \A k \in 1..length :
      images[k].tprogress_hours =
        FloorDiv(2 * (images[k].datetime_obj - images[1].datetime_obj) + 3600, 7200)

\* C5: when the input timestamps are non-decreasing with index, the
\* tprogress_frac values evaluate leaves are non-decreasing with index.
C5_Monotonic ==
  (EvaluateEnded /\ SortedInput)
    => \A a, b \in 1..length :
         a < b => RLe(images[a].tprogress_frac, images[b].tprogress_frac)

C5_Witness ==
  /\ Evaluated /\ length = 3 /\ SortedInput
  /\ RLt(images[1].tprogress_frac, images[2].tprogress_frac)
  /\ RLt(images[2].tprogress_frac, images[3].tprogress_frac)

\* C6: a label wider than the bar is never centred: it is left-anchored at
\* xoff when the left test xprog - span/2 < xoff holds (the test made
\* first), and right-anchored at xoff + xlen otherwise.
C6_WideLabelClamped ==
  \A k \in 1..length : \A n \in TextCmds(k) :
    LET f == images[k]
        c == f.image.cmds[n]
        half == RMul(Rat(1, 2), RInt(c.textwidth))
        leftTest == RLt(RSub(XProg(f), half), XOff(f))
    IN  RLt(XLen(f), RInt(c.textwidth))
          => /\ c.anchor \in {"ld", "rd"}
             /\ leftTest => (c.anchor = "ld" /\ c.xy[1] = XOff(f))
             /\ ~leftTest => (c.anchor = "rd" /\ c.xy[1] = BarEnd(f))

C6_Witness ==
  \E k \in 1..length : \E n \in TextCmds(k) :
    LET f == images[k]
        c == f.image.cmds[n]
    IN  /\ RLt(XLen(f), RInt(c.textwidth))
        /\ c.anchor = "rd"
        /\ k > 1
        /\ \E m \in TextCmds(1) :
             /\ RLt(XLen(images[1]), RInt(images[1].image.cmds[m].textwidth))
             /\ images[1].image.cmds[m].anchor = "ld"

\* C7: the output file names of two records i < j of one sequence sort
\* lexically in index order, for every sequence length.
C7_NamesSortByIndex ==
  names.fi # <<>> => LexLess(names.fi, names.fj)

\* C8: one call of Frame.timeline issues background rectangle, bar,
\* progress line, marker disc, label, in this order.
C8_DrawOrderLineThenDisc ==
  \A k \in 1..length :
    images[k].image.cmds # <<>>
      => Kinds(k) = <<"rectangle", "bar", "progress", "disc", "text">>

\* C8 as amended: one call of Frame.timeline issues background rectangle,
\* bar, marker disc, progress line, label, in this order: the progress line
\* is drawn after the marker disc.
C8_DrawOrderDiscThenLine ==
  \A k \in 1..length :
    images[k].image.cmds # <<>>
      => Kinds(k) = <<"rectangle", "bar", "disc", "progress", "text">>

C8_Witness ==
  /\ length >= 2
  /\ pc = "save"
  /\ Len(images[cur].image.cmds) = 5

\* the surface of frame k is drawn on in this step
DrawnOn(k) ==
  /\ images'[k].image.cmds # images[k].image.cmds
  /\ images'[k].image.cmds # <<>>

\* the surface of frame k is downscaled in this step
Downscaled(k) == images'[k].image.scaled /\ ~images[k].image.scaled

AllSaved == \A k \in 1..length : \E x \in disk : x.name = images[k].outfile

\* C9: a frame's surface is downscaled only after the whole overlay is
\* drawn on it, no drawing command is issued on a downscaled surface, every
\* file is written from the downscaled overlaid surface, and make_movie
\* starts only after every frame has been saved.
C9_DownscaleAfterOverlay ==
  /\ [][\A k \in 1..length : DrawnOn(k) => ~images[k].image.scaled]_vars
  /\ [][\A k \in 1..length :
          Downscaled(k) => Len(images[k].image.cmds) = 5]_vars
  /\ [](\A x \in disk : x.image.scaled /\ Len(x.image.cmds) = 5)
  /\ [](pc = "make_movie" => AllSaved)

C9_Witness ==
  /\ pc = "make_movie"
  /\ length = 3
  /\ Cardinality(disk) = 3
  /\ \E x \in disk : x.image.size = <<OutWidth, OutHeight>>

\* C10: the cursor never decreases, the frames yielded are images[0..]
\* each once in index order, all of them by the first StopIteration, and
\* after a StopIteration no frame is yielded any more.
C10_SinglePass ==
  /\ [][index' >= index]_vars
  /\ [][stopped => (stopped' /\ yielded' = yielded)]_vars
  /\ [](/\ Len(yielded) <= length
        /\ \A n \in 1..Len(yielded) : yielded[n] = n)
  /\ [](stopped => Len(yielded) = length)

C10_Witness ==
  /\ stopped
  /\ calls = 2
  /\ pc = "make_movie"
  /\ length = 3
  /\ yielded = <<1, 2, 3>>
  /\ index > length
====
